---- MODULE Spec2Model ----
(***************************************************************************)
(* A model of the cleaning-and-analysis engine of src/lib/dataProcessor.ts *)
(* (class DataProcessor): processFile, cleanData, isNumeric, isOutlier,    *)
(* handleOutlier, imputeValue, generateSummary and calculateStatistics.    *)
(*                                                                         *)
(* Values.  A cell is a JavaScript value of type                           *)
(* string | number | null | undefined.  Text is a sequence of one-char     *)
(* strings, so that parseFloat is computed from the characters.  Numbers   *)
(* are integers; the cells a file can hold are even integers, for which    *)
(* 1.5 * iqr is an integer and every double operation of the code is       *)
(* exact.  A row is a JavaScript object: a sequence of <<key, value>>      *)
(* entries in insertion order.  Row objects live in a heap and arrays of   *)
(* rows hold references (heap indices), as in JavaScript.                  *)
(***************************************************************************)
EXTENDS Integers, Sequences, FiniteSets, TLC

VARIABLES
    heap,       \* the row objects allocated so far: heap[r] is the object at reference r
    data,       \* DataProcessor.data: sequence of row references
    columns,    \* DataProcessor.columns: sequence of column names
    runs,       \* one record per finished processFile call: its file and what it returned
    writes,     \* cell writes made so far by the holders of row references
    lastOp,     \* the operation that produced the current state
    ui          \* the state of the FileUpload component, once it is rendered

vars == <<heap, data, columns, runs, writes, lastOp, ui>>

----------------------------------------------------------------------------
(* Bounds *)

\* longest table of the one-column files over the short cell alphabet
MaxRows == 5
\* longest table of the one-column files over the full cell alphabet
MaxRowsFull == 2
\* longest table of the two-column files
MaxRowsWide == 2
\* processFile calls on the one DataProcessor instance of the lifecycle specification
MaxRuns == 2
\* cell writes by the holders of row references in the lifecycle specification
MaxWrites == 1
\* rows of the one-column files of text cells
MaxRowsCategorical == 4
\* rows of the two-column sheets with a column of numbers
MaxRowsTall == 5

----------------------------------------------------------------------------
(* JavaScript values *)

Null == [k |-> "null"]
Undefined == [k |-> "undefined"]
Num(n) == [k |-> "number", v |-> n]
Str(s) == [k |-> "string", s |-> s]

IsNum(c) == c.k = "number"
IsStr(c) == c.k = "string"

EmptyText == << >>
NaNText == <<"N", "a", "N">>

Digits == {"0", "1", "2", "3", "4", "5", "6", "7", "8", "9"}

DigitVal(ch) ==
    CASE ch = "0" -> 0 [] ch = "1" -> 1 [] ch = "2" -> 2 [] ch = "3" -> 3
      [] ch = "4" -> 4 [] ch = "5" -> 5 [] ch = "6" -> 6 [] ch = "7" -> 7
      [] ch = "8" -> 8 [] ch = "9" -> 9

\* row[column]: the value of the entry with that key, undefined when there is none
Get(row, column) ==
    IF \E i \in 1..Len(row) : row[i][1] = column
    THEN row[CHOOSE i \in 1..Len(row) : row[i][1] = column][2]
    ELSE Undefined

\* Object.keys(row)
Keys(row) == [i \in 1..Len(row) |-> row[i][1]]

\* row[column] = value on an object: replaces the entry, or appends a new one
Put(row, column, value) ==
    IF \E i \in 1..Len(row) : row[i][1] = column
    THEN [i \in 1..Len(row) |-> IF row[i][1] = column THEN <<column, value>> ELSE row[i]]
    ELSE Append(row, <<column, value>>)

----------------------------------------------------------------------------
(* parseFloat, on texts without a decimal point or an exponent *)

RECURSIVE SkipSpaces(_)
SkipSpaces(s) ==
    IF s # << >> /\ Head(s) = " " THEN SkipSpaces(Tail(s)) ELSE s

\* the longest prefix of s made of digits
RECURSIVE DigitPrefix(_)
DigitPrefix(s) ==
    IF s # << >> /\ Head(s) \in Digits
    THEN <<Head(s)>> \o DigitPrefix(Tail(s))
    ELSE << >>

RECURSIVE DigitsValue(_, _)
DigitsValue(ds, acc) ==
    IF ds = << >> THEN acc ELSE DigitsValue(Tail(ds), 10 * acc + DigitVal(Head(ds)))

InfinityText == <<"I", "n", "f", "i", "n", "i", "t", "y">>

StartsWith(s, p) == Len(s) >= Len(p) /\ SubSeq(s, 1, Len(p)) = p

\* the unsigned part: "Infinity", a run of digits, or nothing parseable
ParseUnsigned(s) ==
    IF StartsWith(s, InfinityText) THEN [k |-> "inf"]
    ELSE IF DigitPrefix(s) = << >> THEN [k |-> "nan"]
    ELSE [k |-> "fin", v |-> DigitsValue(DigitPrefix(s), 0)]

Negate(p) == IF p.k = "fin" THEN [k |-> "fin", v |-> 0 - p.v] ELSE p

\* parseFloat(text): leading blanks skipped, an optional sign, then the longest
\* numeric prefix; NaN when there is none
parseFloat(text) ==
    LET s == SkipSpaces(text) IN
    IF s # << >> /\ Head(s) = "-" THEN Negate(ParseUnsigned(Tail(s)))
    ELSE IF s # << >> /\ Head(s) = "+" THEN ParseUnsigned(Tail(s))
    ELSE ParseUnsigned(s)

\* DataProcessor.isNumeric
isNumeric(value) ==
    IF IsNum(value) THEN TRUE
    ELSE IF IsStr(value) THEN parseFloat(value.s).k # "nan" /\ parseFloat(value.s).k = "fin"
    ELSE FALSE

\* val => typeof val === 'number' ? val : parseFloat(val as string), on a cell that
\* passed isNumeric
Coerce(value) == IF IsNum(value) THEN value.v ELSE parseFloat(value.s).v

CoerceAll(values) == [i \in 1..Len(values) |-> Coerce(values[i])]

\* IsMissing without the test of the text "NaN"
IsMissingNoNaN(value) ==
    \/ value = Null
    \/ value = Undefined
    \/ value = Str(EmptyText)

\* v === null || v === undefined || v === '' || v === 'NaN'
IsMissing(value) ==
    \/ value = Null
    \/ value = Undefined
    \/ value = Str(EmptyText)
    \/ value = Str(NaNText)

----------------------------------------------------------------------------
(* Arrays of numbers *)

RECURSIVE Insert(_, _)
Insert(sorted, x) ==
    IF sorted = << >> THEN <<x>>
    ELSE IF x < Head(sorted) THEN <<x>> \o sorted
    ELSE <<Head(sorted)>> \o Insert(Tail(sorted), x)

\* values.sort((a, b) => a - b)
RECURSIVE SortAsc(_)
SortAsc(values) ==
    IF values = << >> THEN << >>
    ELSE Insert(SortAsc(SubSeq(values, 1, Len(values) - 1)), values[Len(values)])

RECURSIVE Sum(_)
Sum(values) == IF values = << >> THEN 0 ELSE Head(values) + Sum(Tail(values))

RECURSIVE SumSquares(_)
SumSquares(values) ==
    IF values = << >> THEN 0 ELSE Head(values) * Head(values) + SumSquares(Tail(values))

Range(s) == {s[i] : i \in 1..Len(s)}

\* 1.5 * x; exact on the even x that differences of file cells are
OneAndAHalf(x) == (3 * x) \div 2

\* this.data.map(row => row[column])
ColumnValues(rows, column) == [i \in 1..Len(rows) |-> Get(rows[i], column)]

\* this.data.map(row => row[column]).filter(val => this.isNumeric(val))
\*     .map(val => typeof val === 'number' ? val : parseFloat(val as string))
NumericValues(rows, column) == CoerceAll(SelectSeq(ColumnValues(rows, column), isNumeric))

\* fewest numeric values for which isOutlier computes quartiles
MinQuartileValues == 4

\* sorted[Math.floor(sorted.length * 0.25)], with 0-based indexing
Q1(sorted) == sorted[(Len(sorted) \div 4) + 1]

\* sorted[Math.floor(sorted.length * 0.75)], with 0-based indexing
Q3(sorted) == sorted[((3 * Len(sorted)) \div 4) + 1]

LowerBound(sorted) == Q1(sorted) - OneAndAHalf(Q3(sorted) - Q1(sorted))
UpperBound(sorted) == Q3(sorted) + OneAndAHalf(Q3(sorted) - Q1(sorted))

\* OutsideBounds counting a value on a bound as outside
OutsideOrOnBounds(sorted, value) ==
    value <= LowerBound(sorted) \/ value >= UpperBound(sorted)

OutsideBounds(sorted, value) == value < LowerBound(sorted) \/ value > UpperBound(sorted)

\* DataProcessor.isOutlier
isOutlier(rows, column, value) ==
    IF Len(NumericValues(rows, column)) < MinQuartileValues THEN FALSE
    ELSE OutsideBounds(SortAsc(NumericValues(rows, column)), value)

\* CapAtBounds returning the quartile on the side of the value
CapAtQuartiles(sorted, value) ==
    IF value < LowerBound(sorted) THEN Q1(sorted)
    ELSE IF value > UpperBound(sorted) THEN Q3(sorted)
    ELSE value

CapAtBounds(sorted, value) ==
    IF value < LowerBound(sorted) THEN LowerBound(sorted)
    ELSE IF value > UpperBound(sorted) THEN UpperBound(sorted)
    ELSE value

\* DataProcessor.handleOutlier
handleOutlier(rows, column, value) == CapAtBounds(SortAsc(NumericValues(rows, column)), value)

----------------------------------------------------------------------------
(* Imputation *)

\* the keys of the frequency object, in insertion order: the distinct texts of
\* values in order of first occurrence
RECURSIVE FrequencyKeys(_)
FrequencyKeys(values) ==
    IF values = << >> THEN << >>
    ELSE LET front == FrequencyKeys(SubSeq(values, 1, Len(values) - 1))
             key == values[Len(values)].s
         IN  IF key \in Range(front) THEN front ELSE Append(front, key)

\* frequency[key]
Frequency(values, key) == Cardinality({i \in 1..Len(values) : values[i].s = key})

\* keys.reduce((a, b) => frequency[a] > frequency[b] ? a : b), keys not empty
RECURSIVE ReduceMode(_, _)
ReduceMode(values, keys) ==
    IF Len(keys) = 1 THEN keys[1]
    ELSE LET a == ReduceMode(values, SubSeq(keys, 1, Len(keys) - 1))
             b == keys[Len(keys)]
         IN  IF Frequency(values, a) > Frequency(values, b) THEN a ELSE b

\* NotMissing without the test of the text "NaN"
NotMissingNoNaN(value) == ~IsMissingNoNaN(value)

NotMissing(value) == ~IsMissing(value)

\* MiddleValue taking sorted[0]
LowestValue(sorted) == sorted[1]

\* sorted[Math.floor(sorted.length / 2)], with 0-based indexing
MiddleValue(sorted) == sorted[(Len(sorted) \div 2) + 1]

\* ImputeFrom returning the first non-missing value of the column
ImputeFromFirst(values) == IF Len(values) = 0 THEN Null ELSE values[1]

\* imputeValue on the non-missing values of the column
ImputeFrom(values) ==
    IF Len(values) = 0 THEN Null
    ELSE IF Len(SelectSeq(values, isNumeric)) > 0
    THEN Num(MiddleValue(SortAsc(CoerceAll(SelectSeq(values, isNumeric)))))
    ELSE Str(ReduceMode(values, FrequencyKeys(values)))

\* DataProcessor.imputeValue
imputeValue(rows, column) == ImputeFrom(SelectSeq(ColumnValues(rows, column), NotMissing))

----------------------------------------------------------------------------
(* Cleaning *)

ImputedAction(column) == <<"Imputed missing value in column ", column>>
OutlierAction(column) == <<"Handled outlier in column ", column>>

\* "Handle missing values": the value after the first if of the inner loop
ResolveMissing(rows, column, original) ==
    IF IsMissing(original) THEN imputeValue(rows, column) ELSE original

\* the condition of the second if of the inner loop
IsCapped(rows, column, value) ==
    isNumeric(value) /\ IsNum(value) /\ isOutlier(rows, column, value.v)

\* CapOutlier without the typeof test: text-encoded numbers are coerced and capped
CapOutlierCoercing(rows, column, value) ==
    IF isNumeric(value) /\ isOutlier(rows, column, Coerce(value))
    THEN Num(handleOutlier(rows, column, Coerce(value)))
    ELSE value

\* "Handle outliers for numerical data": the value after the second if
CapOutlier(rows, column, value) ==
    IF IsCapped(rows, column, value) THEN Num(handleOutlier(rows, column, value.v))
    ELSE value

\* cleanedRow[column] for the cell original of the column
CleanCell(rows, column, original) ==
    CapOutlier(rows, column, ResolveMissing(rows, column, original))

\* the actions the inner loop pushes on the local cleaningActions for a cell whose
\* value after the first if is resolved
PushedActions(rows, column, original, resolved) ==
    (IF IsMissing(original) /\ resolved # Null THEN <<ImputedAction(column)>> ELSE << >>)
    \o (IF IsCapped(rows, column, resolved) THEN <<OutlierAction(column)>> ELSE << >>)

CellActions(rows, column, original) ==
    PushedActions(rows, column, original, ResolveMissing(rows, column, original))

\* CleanRow cleaning every cell with the values of the first column
CleanRowFirstColumn(rows, cols, row) ==
    [j \in 1..Len(cols) |-> <<cols[j], CleanCell(rows, cols[1], Get(row, cols[j]))>>]

\* the cleanedRow built for one row: one entry per column, in column order
CleanRow(rows, cols, row) ==
    [j \in 1..Len(cols) |-> <<cols[j], CleanCell(rows, cols[j], Get(row, cols[j]))>>]

RECURSIVE RowActions(_, _, _)
RowActions(rows, cols, row) ==
    IF cols = << >> THEN << >>
    ELSE CellActions(rows, Head(cols), Get(row, Head(cols)))
         \o RowActions(rows, Tail(cols), row)

RECURSIVE TableActions(_, _, _)
TableActions(rows, cols, todo) ==
    IF todo = << >> THEN << >>
    ELSE RowActions(rows, cols, Head(todo)) \o TableActions(rows, cols, Tail(todo))

\* cleanData putting each cleaned row in front of the rows cleaned before it
cleanDataUnshift(rows, cols) ==
    [cleanedData |-> [i \in 1..Len(rows) |-> CleanRow(rows, cols, rows[Len(rows) + 1 - i])],
     cleaningActions |-> TableActions(rows, cols, rows)]

\* DataProcessor.cleanData: the row objects it returns, and its local
\* cleaningActions array as it stands at the return
cleanData(rows, cols) ==
    [cleanedData |-> [i \in 1..Len(rows) |-> CleanRow(rows, cols, rows[i])],
     cleaningActions |-> TableActions(rows, cols, rows)]

----------------------------------------------------------------------------
(* Summary and statistics *)

\* ExceedsNumericShare with >= for >
ReachesNumericShare(numericCount, length) == 5 * numericCount >= 4 * length

\* numericCount > values.length * 0.8: the double product is exact, so the test is
\* 5 * numericCount > 4 * values.length
ExceedsNumericShare(numericCount, length) == 5 * numericCount > 4 * length

\* the data type generateSummary gives a column
DataType(rows, column) ==
    LET values == ColumnValues(rows, column)
        numericCount == Len(SelectSeq(values, isNumeric))
    IN  IF ExceedsNumericShare(numericCount, Len(values)) THEN "numeric" ELSE "categorical"

\* values.filter(v => v === null || v === undefined || v === '' || v === 'NaN').length
MissingCount(rows, column) == Len(SelectSeq(ColumnValues(rows, column), IsMissing))

\* numericValues.filter(v => this.isOutlier(column, v))
OutlierValues(rows, column) ==
    LET numericValues == NumericValues(rows, column)
        Test(v) == isOutlier(rows, column, v)
    IN  SelectSeq(numericValues, Test)

\* DataProcessor.generateSummary.  The objects keyed by column are functions on
\* the set of their keys; outliers gets a key only for a numeric column.
generateSummary(rows, cols) ==
    [totalRows |-> Len(rows),
     totalColumns |-> Len(cols),
     missingValues |-> [c \in Range(cols) |-> MissingCount(rows, c)],
     dataTypes |-> [c \in Range(cols) |-> DataType(rows, c)],
     outliers |-> [c \in {d \in Range(cols) : DataType(rows, d) = "numeric"}
                      |-> OutlierValues(rows, c)],
     cleaningActions |-> << >>]

\* decimals kept by toFixed(4)
FixedDecimals == 4

RECURSIVE Pow10(_)
Pow10(n) == IF n = 0 THEN 1 ELSE 10 * Pow10(n - 1)

\* parseFloat((num / den).toFixed(4)), in units of 10^-4: the nearest multiple,
\* a tie going away from zero
Fixed4(num, den) ==
    IF num >= 0
    THEN (2 * num * Pow10(FixedDecimals) + den) \div (2 * den)
    ELSE 0 - ((2 * (0 - num) * Pow10(FixedDecimals) + den) \div (2 * den))

\* variance = sum((val - mean)^2) / n = (n * sum(val^2) - sum(val)^2) / n^2, an
\* exact fraction
Variance(values) ==
    [num |-> Len(values) * SumSquares(values) - Sum(values) * Sum(values),
     den |-> Len(values) * Len(values)]

NotNumeric(value) == ~isNumeric(value)

\* the entry calculateStatistics makes for a column with numeric values, sorted.
\* std is carried as the variance it is the square root of: the rounded root is a
\* function of it.
NumericStatistics(sorted, notNumeric) ==
    [mean |-> Fixed4(Sum(sorted), Len(sorted)),
     median |-> Fixed4(MiddleValue(sorted), 1),
     std |-> Variance(sorted),
     min |-> sorted[1],
     max |-> sorted[Len(sorted)],
     missingCount |-> notNumeric]

\* ColumnStatistics counting the literally missing cells in both branches
ColumnStatisticsLiteral(rows, column) ==
    IF Len(NumericValues(rows, column)) > 0
    THEN NumericStatistics(SortAsc(NumericValues(rows, column)),
                           Len(SelectSeq(ColumnValues(rows, column), IsMissing)))
    ELSE [missingCount |-> Len(SelectSeq(ColumnValues(rows, column), IsMissing))]

\* the entry calculateStatistics makes for one column
ColumnStatistics(rows, column) ==
    IF Len(NumericValues(rows, column)) > 0
    THEN NumericStatistics(SortAsc(NumericValues(rows, column)),
                           Len(SelectSeq(ColumnValues(rows, column), NotNumeric)))
    ELSE [missingCount |-> Len(SelectSeq(ColumnValues(rows, column), IsMissing))]

\* calculateStatistics leaving out the columns without a numeric value
calculateStatisticsSkipping(rows, cols) ==
    [c \in {d \in Range(cols) : Len(NumericValues(rows, d)) > 0} |-> ColumnStatistics(rows, c)]

\* DataProcessor.calculateStatistics
calculateStatistics(rows, cols) == [c \in Range(cols) |-> ColumnStatistics(rows, c)]

----------------------------------------------------------------------------
(* Files and the parsers *)

\* toLowerCase, on the letters file names are written with
Lower(ch) ==
    CASE ch = "C" -> "c" [] ch = "S" -> "s" [] ch = "V" -> "v"
      [] ch = "X" -> "x" [] ch = "L" -> "l" [] OTHER -> ch

\* name.split('.').pop(): the characters after the last dot, the whole name when
\* it has no dot
RECURSIVE LastSegment(_)
LastSegment(name) ==
    IF name = << >> THEN << >>
    ELSE IF name[Len(name)] = "." THEN << >>
    ELSE Append(LastSegment(SubSeq(name, 1, Len(name) - 1)), name[Len(name)])

\* file.name.split('.').pop()?.toLowerCase()
FileExtension(name) ==
    LET ext == LastSegment(name) IN [i \in 1..Len(ext) |-> Lower(ext[i])]

CsvExt == <<"c", "s", "v">>
XlsxExt == <<"x", "l", "s", "x">>
XlsExt == <<"x", "l", "s">>

\* the row object a parser builds from the cells of one line: one entry per
\* column that has a cell, none for a column whose cell is Undefined
RECURSIVE RowObject(_, _)
RowObject(cols, cells) ==
    IF cols = << >> THEN << >>
    ELSE LET front == RowObject(SubSeq(cols, 1, Len(cols) - 1), SubSeq(cells, 1, Len(cols) - 1))
         IN  IF cells[Len(cols)] # Undefined
             THEN Append(front, <<cols[Len(cols)], cells[Len(cols)]>>)
             ELSE front

\* A file is what its parser makes of it: the row objects (results.data of
\* Papa.parse, the array of XLSX.utils.sheet_to_json), the header fields
\* (results.meta.fields) and whether the parser fails on it.
File(name, fields, rows, broken) ==
    [name |-> name, fields |-> fields, rows |-> rows, broken |-> broken]

\* results.meta.fields || []  (parseCSV)
CsvColumns(file) == file.fields

\* Object.keys(jsonData[0] || {})  (parseExcel)
ExcelColumns(file) == IF file.rows = << >> THEN << >> ELSE Keys(file.rows[1])

UnsupportedFormat == "Unsupported file format. Please upload CSV or Excel file."
ParserError == "parser error"

\* the three ways processFile gets past its parsing step: the columns it then
\* holds, or the error it throws
ParseOutcome(file) ==
    LET ext == FileExtension(file.name) IN
    IF ext = CsvExt
    THEN IF file.broken THEN [ok |-> FALSE, error |-> ParserError]
         ELSE [ok |-> TRUE, columns |-> CsvColumns(file)]
    ELSE IF ext \in {XlsxExt, XlsExt}
    THEN IF file.broken THEN [ok |-> FALSE, error |-> ParserError]
         ELSE [ok |-> TRUE, columns |-> ExcelColumns(file)]
    ELSE [ok |-> FALSE, error |-> UnsupportedFormat]

----------------------------------------------------------------------------
(* The files offered to the processor *)

Text2 == <<"2">>
Text40 == <<"4", "0">>
TextMinus40 == <<"-", "4", "0">>
Text4x == <<" ", "4", "x">>
TextNY == <<"N", "Y">>
TextLA == <<"L", "A">>

\* cells of the long one-column sheets
ShortCells == {Str(EmptyText), Num(2), Num(4), Num(40), Str(Text40)}

\* cells of the short one-column files: every kind of value a DataRow can hold
\* (Undefined: the row has no entry for the column)
FullCells ==
    {Undefined, Null, Str(EmptyText), Str(NaNText), Str(InfinityText),
     Num(2), Str(Text2), Str(TextMinus40), Str(Text4x), Str(TextNY), Str(TextLA)}

\* cells of the one-column files of text: two names, a text-encoded number and
\* the empty cell
CategoricalCells == {Str(EmptyText), Str(TextNY), Str(TextLA), Str(Text2)}

\* cells of the first and of the second column of the tall two-column sheets
TallCells == {Num(2), Num(40)}
SecondCells == {Num(2), Num(40), Str(TextNY)}

\* cells of the two-column sheets
WideCells == {Undefined, Num(2), Num(40), Str(TextNY)}

NameCsv == <<"a", ".", "c", "s", "v">>
NameXlsx == <<"b", ".", "X", "L", "S", "X">>
NameXls == <<"c", ".", "x", "l", "s">>
NameTxt == <<"d", ".", "t", "x", "t">>

ColsX == <<"x">>
ColsXY == <<"x", "y">>

\* the table a parser makes of lines of cells
Table(cols, lines) == [i \in 1..Len(lines) |-> RowObject(cols, lines[i])]

\* the lines of n rows over the columns cols with cells from a set
Lines(cols, cells, n) == [1..n -> [1..Len(cols) -> cells]]

\* sheet_to_json leaves out a row without any cell
NoBlankRow(rows) == \A i \in 1..Len(rows) : rows[i] # << >>

\* a one-column sheet of up to MaxRows rows
LongSheet(lines) == File(NameXlsx, << >>, Table(ColsX, lines), FALSE)

\* a one-column CSV file of up to MaxRowsFull rows
ShortFile(lines) == File(NameCsv, ColsX, Table(ColsX, lines), FALSE)

\* a two-column sheet whose second column holds the same cell in every row
TallSheet(lines, second) ==
    File(NameXlsx, << >>,
         [i \in 1..Len(lines) |-> RowObject(ColsXY, <<lines[i][1], second>>)], FALSE)

\* a two-column sheet of up to MaxRowsWide rows
WideSheet(lines) == File(NameXls, << >>, Table(ColsXY, lines), FALSE)

EmptyCsv == File(NameCsv, << >>, << >>, FALSE)
HeaderOnlyCsv == File(NameCsv, ColsX, << >>, FALSE)
WideHeaderOnlyCsv == File(NameCsv, ColsXY, << >>, FALSE)
BrokenCsv == File(NameCsv, ColsX, << >>, TRUE)
BrokenSheet == File(NameXlsx, << >>, << >>, TRUE)
TextFile == File(NameTxt, << >>, << >>, FALSE)

OtherFiles == {EmptyCsv, WideHeaderOnlyCsv, BrokenCsv, BrokenSheet, TextFile}

\* the files of the lifecycle specification
MixedSheet ==
    File(NameXls, << >>,
         <<RowObject(ColsXY, <<Num(2), Str(TextNY)>>), RowObject(ColsXY, <<Num(4), Undefined>>)>>,
         FALSE)
TextCsv ==
    File(NameCsv, ColsX,
         <<RowObject(ColsX, <<Str(Text2)>>), RowObject(ColsX, <<Str(EmptyText)>>)>>, FALSE)

FewFiles == {MixedSheet, TextCsv, HeaderOnlyCsv, EmptyCsv, BrokenCsv, TextFile}

\* the values a holder of a row reference writes into a cell
WrittenValues == {Num(6), Str(TextLA)}

----------------------------------------------------------------------------
(* The heap *)

Max(a, b) == IF a >= b THEN a ELSE b

\* the references of n objects allocated above top
Refs(top, n) == [i \in 1..n |-> top + i]

\* the objects an array of references points to
Deref(hp, refs) == [i \in 1..Len(refs) |-> hp[refs[i]]]

RECURSIVE MaxOf(_)
MaxOf(refs) == IF refs = << >> THEN 0 ELSE Max(Head(refs), MaxOf(Tail(refs)))

\* the heap once objects[i] is stored at refs[i], for every i
StoreRows(hp, refs, objects) ==
    [r \in 1..Max(Len(hp), MaxOf(refs)) |->
        IF \E i \in 1..Len(refs) : refs[i] = r
        THEN objects[CHOOSE i \in 1..Len(refs) : refs[i] = r]
        ELSE hp[r]]

\* ParsedData pushing the parsed rows on the array already held
ParsedDataAppended(held, parsed) == held \o parsed

\* this.data = results.data / this.data = jsonData: the array held is replaced
ParsedData(held, parsed) == parsed

\* cleanedRowRef with const cleanedRow = row: the cleaned row is the row itself
cleanedRowRefAliased(top, i, rowRef) == rowRef

\* const cleanedRow: DataRow = {}: the i-th cleaned row is a new object, above
\* the objects allocated so far
cleanedRowRef(top, i, rowRef) == top + i

----------------------------------------------------------------------------
(* The operations *)

\* no FileUpload component is rendered
Unmounted == [component |-> "none"]

Init ==
    /\ heap = << >>
    /\ data = << >>
    /\ columns = << >>
    /\ runs = << >>
    /\ writes = 0
    /\ lastOp = [op |-> "new"]
    /\ ui = Unmounted

\* Assemble with the statistics computed from the cleaned rows
AssembleFromCleaned(heap2, newData, cleanedData, cols) ==
    [heap |-> heap2,
     data |-> newData,
     analysis |-> [originalData |-> newData,
                   cleanedData |-> cleanedData,
                   summary |-> generateSummary(Deref(heap2, newData), cols),
                   statistics |-> calculateStatistics(Deref(heap2, cleanedData), cols)],
     snapshot |-> [originalData |-> Deref(heap2, newData),
                   cleanedData |-> Deref(heap2, cleanedData)]]

\* the return statement of processFile: the analysis, with the heap and the array
\* the call leaves behind
Assemble(heap2, newData, cleanedData, cols) ==
    [heap |-> heap2,
     data |-> newData,
     analysis |-> [originalData |-> newData,
                   cleanedData |-> cleanedData,
                   summary |-> generateSummary(Deref(heap2, newData), cols),
                   statistics |-> calculateStatistics(Deref(heap2, newData), cols)],
     \* the rows as they are when the analysis is returned
     snapshot |-> [originalData |-> Deref(heap2, newData),
                   cleanedData |-> Deref(heap2, cleanedData)]]

\* the references of the cleaned rows of the rows newData, allocated above top
CleanedRefs(top, newData) == [i \in 1..Len(newData) |-> cleanedRowRef(top, i, newData[i])]

\* const originalData = [...this.data]; const cleanedData = this.cleanData(); ...
Analysed(heap1, newData, cols) ==
    Assemble(StoreRows(heap1, CleanedRefs(Len(heap1), newData),
                       cleanData(Deref(heap1, newData), cols).cleanedData),
             newData, CleanedRefs(Len(heap1), newData), cols)

\* what processFile does once the parser has delivered the rows of the file
Processed(hp, held, file, cols) ==
    Analysed(hp \o file.rows, ParsedData(held, Refs(Len(hp), Len(file.rows))), cols)

\* DataProcessor.processFile(file), from the call to the promise settling
ProcessFile(file) ==
    /\ writes' = writes
    /\ lastOp' = [op |-> "processFile"]
    /\ \E parsed \in {ParseOutcome(file)} :
          IF ~parsed.ok
          THEN /\ UNCHANGED <<heap, data, columns>>
               /\ runs' = Append(runs, [file |-> file, outcome |-> "threw",
                                        error |-> parsed.error])
          ELSE \E done \in {Processed(heap, data, file, parsed.columns)} :
                  /\ heap' = done.heap
                  /\ data' = done.data
                  /\ columns' = parsed.columns
                  /\ runs' = Append(runs, [file |-> file, outcome |-> "returned",
                                           analysis |-> done.analysis,
                                           snapshot |-> done.snapshot])

\* one analysis on a new DataProcessor, of a one-column sheet
AnalyseLongSheet ==
    /\ runs = << >>
    /\ \E n \in 0..MaxRows : \E lines \in Lines(ColsX, ShortCells, n) :
          ProcessFile(LongSheet(lines))
    /\ UNCHANGED ui

\* ... of a one-column CSV file
AnalyseShortFile ==
    /\ runs = << >>
    /\ \E n \in 0..MaxRowsFull : \E lines \in Lines(ColsX, FullCells, n) :
          ProcessFile(ShortFile(lines))
    /\ UNCHANGED ui

\* ... of a two-column sheet
AnalyseWideSheet ==
    /\ runs = << >>
    /\ \E n \in 1..MaxRowsWide : \E lines \in Lines(ColsXY, WideCells, n) :
          /\ NoBlankRow(Table(ColsXY, lines))
          /\ ProcessFile(WideSheet(lines))
    /\ UNCHANGED ui

\* ... of a file without rows, a file its parser fails on, a file of another format
AnalyseOther ==
    /\ runs = << >>
    /\ \E file \in OtherFiles : ProcessFile(file)
    /\ UNCHANGED ui

\* ... of a one-column CSV file of text cells
AnalyseCategoricalFile ==
    /\ runs = << >>
    /\ \E n \in 1..MaxRowsCategorical : \E lines \in Lines(ColsX, CategoricalCells, n) :
          ProcessFile(ShortFile(lines))
    /\ UNCHANGED ui

\* ... of a two-column sheet with enough rows for quartiles
AnalyseTallSheet ==
    /\ runs = << >>
    /\ \E n \in MinQuartileValues..MaxRowsTall :
          \E lines \in Lines(ColsX, TallCells, n), second \in SecondCells :
              ProcessFile(TallSheet(lines, second))
    /\ UNCHANGED ui

Next ==
    \/ AnalyseTallSheet
    \/ AnalyseLongSheet
    \/ AnalyseShortFile
    \/ AnalyseWideSheet
    \/ AnalyseOther
    \/ AnalyseCategoricalFile

Spec == Init /\ [][Next]_vars

----------------------------------------------------------------------------
(* The lifecycle: one DataProcessor used for several files, and the holders of
   the row references writing into the rows *)

\* another processFile call on the same instance
Reuse ==
    /\ Len(runs) < MaxRuns
    /\ \E file \in FewFiles : ProcessFile(file)
    /\ UNCHANGED ui

\* new DataProcessor(): data = [] and columns = []
NewProcessor ==
    /\ data' = << >>
    /\ columns' = << >>
    /\ lastOp' = [op |-> "new"]
    /\ UNCHANGED <<heap, runs, writes, ui>>

WriteCell(ref, column, value) ==
    /\ writes < MaxWrites
    /\ writes' = writes + 1
    /\ heap' = [heap EXCEPT ![ref] = Put(@, column, value)]
    /\ UNCHANGED <<data, columns, runs, ui>>

\* the receiver of an analysis assigns analysis.cleanedData[k][column] = value
WriteCleaned ==
    \E i \in 1..Len(runs) :
        /\ runs[i].outcome = "returned"
        /\ \E k \in 1..Len(runs[i].analysis.cleanedData), column \in Range(ColsXY),
              value \in WrittenValues :
              /\ WriteCell(runs[i].analysis.cleanedData[k], column, value)
              /\ lastOp' = [op |-> "writeCleaned", run |-> i]

\* the receiver of an analysis assigns analysis.originalData[k][column] = value
WriteOriginal ==
    \E i \in 1..Len(runs) :
        /\ runs[i].outcome = "returned"
        /\ \E k \in 1..Len(runs[i].analysis.originalData), column \in Range(ColsXY),
              value \in WrittenValues :
              /\ WriteCell(runs[i].analysis.originalData[k], column, value)
              /\ lastOp' = [op |-> "writeOriginal", run |-> i]

\* a holder of the table of the processor (the parser's results.data, this.data)
\* assigns this.data[k][column] = value
WriteHeld ==
    \E k \in 1..Len(data), column \in Range(ColsXY), value \in WrittenValues :
        /\ WriteCell(data[k], column, value)
        /\ lastOp' = [op |-> "writeHeld"]

NextLifecycle == Reuse \/ NewProcessor \/ WriteCleaned \/ WriteOriginal \/ WriteHeld

SpecLifecycle == Init /\ [][NextLifecycle]_vars

----------------------------------------------------------------------------
(* The FileUpload component: its state hooks, its handlers, and the conditions
   under which it renders the controls that call them.  Timers fire in any
   order. *)

\* what a tick of the progress interval adds, where it stops, and the progress
\* of a finished run
ProgressStep == 10
ProgressCap == 90
ProgressDone == 100

\* the two FileUpload components of the repository: the one with the dropzone
\* always rendered, and the one with clearFile
CardUpload == "card"
PanelUpload == "panel"

\* the files a user drops: the dropzone accepts a file by its extension or by
\* its MIME type, so a file with another extension can get through
DroppedFiles == {MixedSheet, TextCsv, BrokenCsv, BrokenSheet, TextFile}

\* useState(null), useState(false), ...: the component as first rendered.
\* pending is the file captured by the processFile call in flight, intervals
\* the progress intervals not cleared yet (each named by the number of its run),
\* timeouts the pending setTimeout callbacks.
Rendered(component) ==
    [component |-> component, file |-> Null, isProcessing |-> FALSE,
     analysis |-> Null, error |-> Null, pending |-> Null,
     progress |-> 0, intervals |-> {}, timeouts |-> 0]

\* the page renders a FileUpload
Render ==
    /\ ui = Unmounted
    /\ \E component \in {CardUpload, PanelUpload} : ui' = Rendered(component)
    /\ lastOp' = [op |-> "render"]
    /\ UNCHANGED <<heap, data, columns, runs, writes>>

\* the dropzone is rendered: always in the card, only without a file in the panel
DropzoneShown == ui.component = CardUpload \/ ui.file = Null

\* onDrop with one accepted file
onDrop ==
    /\ ui # Unmounted
    /\ DropzoneShown
    /\ \E file \in DroppedFiles :
          ui' = [ui EXCEPT !.file = file, !.error = Null, !.analysis = Null]
    /\ lastOp' = [op |-> "onDrop"]
    /\ UNCHANGED <<heap, data, columns, runs, writes>>

\* the button that calls processFile is rendered and enabled: with a file and
\* not while processing; the panel renders it only without an analysis
ButtonEnabled ==
    /\ ui.file # Null
    /\ ~ui.isProcessing
    /\ ui.component = PanelUpload => ui.analysis = Null

\* FileUpload.processFile up to its await: the call captures the file
StartProcessing ==
    /\ ui # Unmounted
    /\ ButtonEnabled
    /\ Len(runs) < MaxRuns
    /\ ui' = [ui EXCEPT !.isProcessing = TRUE, !.progress = 0, !.error = Null,
                        !.pending = ui.file, !.intervals = @ \cup {Len(runs) + 1}]
    /\ lastOp' = [op |-> "startProcessing"]
    /\ UNCHANGED <<heap, data, columns, runs, writes>>

\* the state hooks after the await: clearInterval, setProgress(100),
\* setAnalysis(result) and setTimeout when processFile returned,
\* setError(err.message) when it threw, and setIsProcessing(false)
Settled(run) ==
    [ui EXCEPT !.pending = Null,
               !.isProcessing = FALSE,
               !.analysis = IF run.outcome = "returned" THEN run.analysis ELSE @,
               !.error = IF run.outcome = "threw" THEN Str(run.error) ELSE @,
               !.intervals = IF run.outcome = "returned" THEN @ \ {Len(runs) + 1} ELSE @,
               !.progress = IF run.outcome = "returned" THEN ProgressDone ELSE @,
               !.timeouts = IF run.outcome = "returned" THEN @ + 1 ELSE @]

\* FileUpload.processFile from its await on: new DataProcessor().processFile(file)
\* settles
FinishProcessing ==
    /\ ui # Unmounted
    /\ ui.pending # Null
    /\ ProcessFile(ui.pending)
    /\ ui' = Settled(runs'[Len(runs')])

\* clearFile, of the panel
clearFile ==
    /\ ui # Unmounted
    /\ ui.component = PanelUpload
    /\ ui.file # Null
    /\ ui' = [ui EXCEPT !.file = Null, !.analysis = Null, !.error = Null]
    /\ lastOp' = [op |-> "clearFile"]
    /\ UNCHANGED <<heap, data, columns, runs, writes>>

\* a tick of a progress interval: at the cap it clears itself
progressTick ==
    /\ ui # Unmounted
    /\ \E id \in ui.intervals :
          ui' = IF ui.progress >= ProgressCap
                THEN [ui EXCEPT !.intervals = @ \ {id}, !.progress = ProgressCap]
                ELSE [ui EXCEPT !.progress = @ + ProgressStep]
    /\ lastOp' = [op |-> "progressTick"]
    /\ UNCHANGED <<heap, data, columns, runs, writes>>

\* setTimeout(() => setProgress(0), 1000) fires
resetProgress ==
    /\ ui # Unmounted
    /\ ui.timeouts > 0
    /\ ui' = [ui EXCEPT !.timeouts = @ - 1, !.progress = 0]
    /\ lastOp' = [op |-> "resetProgress"]
    /\ UNCHANGED <<heap, data, columns, runs, writes>>

NextUpload ==
    \/ Render
    \/ onDrop
    \/ StartProcessing
    \/ FinishProcessing
    \/ clearFile
    \/ progressTick
    \/ resetProgress

SpecUpload == Init /\ [][NextUpload]_vars

----------------------------------------------------------------------------
(* The vocabulary of the properties.  Run i is the i-th finished processFile
   call; its table is what the parser delivered for its file. *)

Returned(i) == runs[i].outcome = "returned"

\* the parser delivered a table for the file of run i
Parsed(i) == ParseOutcome(runs[i].file).ok

\* the rows and the columns of the table handed to the analysis of run i
OriginalRows(i) == runs[i].file.rows
TableColumns(i) == ParseOutcome(runs[i].file).columns

\* the rows of cleanedData and of originalData as run i returned them
CleanedRows(i) == runs[i].snapshot.cleanedData
ReturnedOriginalRows(i) == runs[i].snapshot.originalData

Summary(i) == runs[i].analysis.summary
Statistics(i) == runs[i].analysis.statistics

\* absent (no entry, null or undefined), the empty string, or the text "NaN"
LiterallyMissing(value) ==
    \/ value.k \in {"null", "undefined"}
    \/ value.k = "string" /\ value.s \in {<< >>, <<"N", "a", "N">>}

\* the rows of a table whose cell in the column satisfies Test
RowsWhere(rows, column, Test(_)) == {r \in 1..Len(rows) : Test(Get(rows[r], column))}

\* how often an entry occurs in a list
Occurrences(list, entry) == Cardinality({k \in 1..Len(list) : list[k] = entry})

\* the value of 0-based rank k in ascending order of a list of numbers: fewer
\* than k + 1 values are below it, at least k + 1 are not above it
Ranked(values, k) ==
    CHOOSE v \in Range(values) :
        /\ Cardinality({j \in 1..Len(values) : values[j] < v}) <= k
        /\ Cardinality({j \in 1..Len(values) : values[j] <= v}) > k

\* the numbers of the numeric-coercible cells of a column, in row order
Coerced(rows, column) ==
    LET cells == SelectSeq(ColumnValues(rows, column), isNumeric)
    IN  [j \in 1..Len(cells) |-> Coerce(cells[j])]

\* the rows whose cell in the column is neither missing nor numeric-coercible
TextRows(rows, column) ==
    {r \in 1..Len(rows) : /\ ~LiterallyMissing(Get(rows[r], column))
                          /\ ~isNumeric(Get(rows[r], column))}

\* how many cells of the column are the value
CountOf(rows, column, value) ==
    Cardinality({r \in 1..Len(rows) : Get(rows[r], column) = value})

\* the value is a most frequent one among the non-missing cells of the column
MostFrequent(rows, column, value) ==
    /\ ~LiterallyMissing(value)
    /\ CountOf(rows, column, value) > 0
    /\ \A r \in 1..Len(rows) :
          ~LiterallyMissing(Get(rows[r], column))
          => CountOf(rows, column, Get(rows[r], column)) <= CountOf(rows, column, value)

\* twice the bounds Q1 - 1.5*(Q3 - Q1) and Q3 + 1.5*(Q3 - Q1), with Q1 and Q3 the
\* values of rank floor(n/4) and floor(3n/4) of the n values
TwiceLower(values) ==
    2 * Ranked(values, Len(values) \div 4)
      - 3 * (Ranked(values, (3 * Len(values)) \div 4) - Ranked(values, Len(values) \div 4))
TwiceUpper(values) ==
    2 * Ranked(values, (3 * Len(values)) \div 4)
      + 3 * (Ranked(values, (3 * Len(values)) \div 4) - Ranked(values, Len(values) \div 4))

StrictlyBelow(values, v) == 2 * v < TwiceLower(values)
StrictlyAbove(values, v) == 2 * v > TwiceUpper(values)

\* the values of a list that are strictly outside the bounds of the list
StrictlyOutside(values) ==
    LET Test(v) == StrictlyBelow(values, v) \/ StrictlyAbove(values, v)
    IN  SelectSeq(values, Test)

\* the first value in row order among the most frequent values of the column
FirstMostFrequent(rows, column) ==
    LET first == CHOOSE r \in 1..Len(rows) :
                    /\ MostFrequent(rows, column, Get(rows[r], column))
                    /\ \A q \in 1..(r - 1) : ~MostFrequent(rows, column, Get(rows[q], column))
    IN  Get(rows[first], column)

\* the value is a cell of the column read as a number, or as it is
SameLiteral(cell, value) ==
    \/ cell = value
    \/ isNumeric(cell) /\ IsNum(value) /\ Coerce(cell) = value.v

\* the value is a mode of the column: it is one of the most frequent non-missing
\* cells, with any tie-break and as a number or as the text of the cell
IsMode(rows, column, value) ==
    \E r \in 1..Len(rows) :
        /\ MostFrequent(rows, column, Get(rows[r], column))
        /\ SameLiteral(Get(rows[r], column), value)

\* the value is a median of the numbers: one of the two middle values
IsMedian(values, value) ==
    /\ IsNum(value)
    /\ \/ value.v = Ranked(values, Len(values) \div 2)
       \/ value.v = Ranked(values, (Len(values) - 1) \div 2)

\* the value lies within [Q1 - 1.5*IQR, Q3 + 1.5*IQR] of the sorted values
WithinBounds(sorted, value) == LowerBound(sorted) <= value /\ value <= UpperBound(sorted)

----------------------------------------------------------------------------
(* Properties of one analysis (specification Spec) *)

\* C1: in a column classified numeric with at least 4 numeric-coercible original
\* cells, every numeric-coercible cell of cleanedData (a number, a text-encoded
\* number or an imputed value) lies within [Q1 - 1.5*IQR, Q3 + 1.5*IQR] of the
\* original column.  The code caps number-typed cells only, so a text-encoded
\* outlier stays outside the bounds.
C1_CleanedWithinBounds ==
    \A i \in 1..Len(runs) : Returned(i) =>
        \A c \in Range(TableColumns(i)) :
            (/\ Summary(i).dataTypes[c] = "numeric"
             /\ Len(NumericValues(OriginalRows(i), c)) >= 4)
            => \A r \in RowsWhere(CleanedRows(i), c, isNumeric) :
                   WithinBounds(SortAsc(NumericValues(OriginalRows(i), c)),
                                Coerce(Get(CleanedRows(i)[r], c)))

\* C2: summary.missingValues[col] is the number of rows of the original table whose
\* cell in the column is absent, the empty string or the text "NaN".
C2_MissingValuesCount ==
    \A i \in 1..Len(runs) : Returned(i) =>
        \A c \in Range(TableColumns(i)) :
            /\ c \in DOMAIN Summary(i).missingValues
            /\ Summary(i).missingValues[c]
                 = Cardinality(RowsWhere(OriginalRows(i), c, LiterallyMissing))

\* C2 happens: a column with an absent cell and a "NaN" cell, counted as 2
C2_Witness ==
    \E i \in 1..Len(runs) :
        /\ Returned(i)
        /\ Len(OriginalRows(i)) = 2
        /\ Get(OriginalRows(i)[1], "x") = Undefined
        /\ Get(OriginalRows(i)[2], "x") = Str(NaNText)
        /\ Summary(i).missingValues["x"] = 2

\* C3: summary.dataTypes[col] is 'numeric' exactly when the number of original
\* cells passing the numeric coercion predicate is strictly above 80% of the row
\* count, and 'categorical' otherwise (so at exactly 80%, and with no rows).
C3_NumericAboveEightyPercent ==
    \A i \in 1..Len(runs) : Returned(i) =>
        \A c \in Range(TableColumns(i)) :
            /\ c \in DOMAIN Summary(i).dataTypes
            /\ Summary(i).dataTypes[c] \in {"numeric", "categorical"}
            /\ Summary(i).dataTypes[c] = "numeric"
                 <=> 5 * Cardinality(RowsWhere(OriginalRows(i), c, isNumeric))
                       > 4 * Len(OriginalRows(i))

\* C3 happens: a column of 5 rows with exactly 4 numeric cells is categorical
C3_Witness ==
    \E i \in 1..Len(runs) :
        /\ Returned(i)
        /\ Len(OriginalRows(i)) = 5
        /\ Cardinality(RowsWhere(OriginalRows(i), "x", isNumeric)) = 4
        /\ Summary(i).dataTypes["x"] = "categorical"

\* C4: a table with zero columns makes the analysis fail instead of returning an
\* Analysis, and every table with at least one column gets an Analysis.  The code
\* has no check of the columns and returns an Analysis for zero columns too.
C4_ZeroColumnsRejected ==
    \A i \in 1..Len(runs) : Parsed(i) =>
        /\ TableColumns(i) = << >> => runs[i].outcome = "threw"
        /\ TableColumns(i) # << >> => runs[i].outcome = "returned"

\* C5: for a table with zero rows and at least one column the analysis succeeds
\* with totalRows = 0, cleanedData empty, missingValues[col] = 0 and
\* statistics[col] = {missingCount: 0} for every column.
C5_EmptyRowSet ==
    \A i \in 1..Len(runs) :
        (Parsed(i) /\ OriginalRows(i) = << >> /\ TableColumns(i) # << >>)
        => /\ Returned(i)
           /\ Summary(i).totalRows = 0
           /\ runs[i].analysis.cleanedData = << >>
           /\ \A c \in Range(TableColumns(i)) :
                 /\ c \in DOMAIN Summary(i).missingValues
                 /\ Summary(i).missingValues[c] = 0
                 /\ c \in DOMAIN Statistics(i)
                 /\ Statistics(i)[c] = [missingCount |-> 0]

\* C5 happens: a header-only file with two columns was analysed
C5_Witness ==
    \E i \in 1..Len(runs) :
        /\ Returned(i)
        /\ OriginalRows(i) = << >>
        /\ TableColumns(i) = ColsXY
        /\ Summary(i).totalColumns = 2

\* C9: summary.cleaningActions holds one 'imputed missing value' action tagged with
\* the column for every cell the cleaner imputed, and one 'handled outlier' action
\* tagged with the column for every cell it capped.  The code pushes the actions
\* on a local array of cleanData and generateSummary returns an empty list.
C9_ActionsLogged ==
    \A i \in 1..Len(runs) : Returned(i) =>
        \A c \in Range(TableColumns(i)) :
            /\ Occurrences(Summary(i).cleaningActions, ImputedAction(c))
                 = Cardinality({r \in 1..Len(OriginalRows(i)) :
                        /\ LiterallyMissing(Get(OriginalRows(i)[r], c))
                        /\ ~LiterallyMissing(Get(CleanedRows(i)[r], c))})
            /\ Occurrences(Summary(i).cleaningActions, OutlierAction(c))
                 = Cardinality({r \in 1..Len(OriginalRows(i)) :
                        /\ ~LiterallyMissing(Get(OriginalRows(i)[r], c))
                        /\ Get(CleanedRows(i)[r], c) # Get(OriginalRows(i)[r], c)})

C11_ImputedValue ==
    \A i \in 1..Len(runs) : Returned(i) =>
        \A c \in Range(TableColumns(i)) :
            \A r \in RowsWhere(OriginalRows(i), c, LiterallyMissing) :
                /\ Coerced(OriginalRows(i), c) # << >>
                   => Get(CleanedRows(i)[r], c)
                        = Num(Ranked(Coerced(OriginalRows(i), c),
                                     Len(Coerced(OriginalRows(i), c)) \div 2))
                /\ (Coerced(OriginalRows(i), c) = << >> /\ TextRows(OriginalRows(i), c) # {})
                   => MostFrequent(OriginalRows(i), c, Get(CleanedRows(i)[r], c))

\* C11 happens: the column NY, NY, LA, "" has its empty cell replaced by NY
C11_Witness ==
    \E i \in 1..Len(runs) :
        /\ Returned(i)
        /\ ColumnValues(OriginalRows(i), "x")
             = <<Str(TextNY), Str(TextNY), Str(TextLA), Str(EmptyText)>>
        /\ Get(CleanedRows(i)[4], "x") = Str(TextNY)

\* C12: a number-typed cell that is an outlier under the bounds of its original
\* column is replaced in cleanedData by the nearest bound: Q1 - 1.5*IQR when it
\* was below, Q3 + 1.5*IQR when it was above.
C12_CappedAtNearestBound ==
    \A i \in 1..Len(runs) : Returned(i) =>
        \A c \in Range(TableColumns(i)) :
            Len(Coerced(OriginalRows(i), c)) >= 4 =>
                \A r \in RowsWhere(OriginalRows(i), c, IsNum) :
                    /\ StrictlyBelow(Coerced(OriginalRows(i), c), Get(OriginalRows(i)[r], c).v)
                       => /\ IsNum(Get(CleanedRows(i)[r], c))
                          /\ 2 * Get(CleanedRows(i)[r], c).v
                               = TwiceLower(Coerced(OriginalRows(i), c))
                    /\ StrictlyAbove(Coerced(OriginalRows(i), c), Get(OriginalRows(i)[r], c).v)
                       => /\ IsNum(Get(CleanedRows(i)[r], c))
                          /\ 2 * Get(CleanedRows(i)[r], c).v
                               = TwiceUpper(Coerced(OriginalRows(i), c))

\* C12 happens: the column 2, 2, 4, 4, 40 has bounds [-1, 7] and its cell 40
\* became 7
C12_Witness ==
    \E i \in 1..Len(runs) :
        /\ Returned(i)
        /\ ColumnValues(OriginalRows(i), "x") = <<Num(2), Num(2), Num(4), Num(4), Num(40)>>
        /\ Get(CleanedRows(i)[5], "x") = Num(7)

\* C13: with Q1 and Q3 the values of rank floor(n/4) and floor(3n/4) of the n
\* numeric-coerced original values of a column, a value is an outlier exactly when
\* it is strictly below Q1 - 1.5*(Q3 - Q1) or strictly above Q3 + 1.5*(Q3 - Q1):
\* these are the values summary.outliers lists for a numeric column and the
\* number-typed cells that cleanedData changes.  With fewer than 4 numeric values
\* nothing is listed and no number-typed cell is changed.
C13_OutlierTest ==
    \A i \in 1..Len(runs) : Returned(i) =>
        \A c \in Range(TableColumns(i)) :
            IF Len(Coerced(OriginalRows(i), c)) < 4
            THEN /\ c \in DOMAIN Summary(i).outliers => Summary(i).outliers[c] = << >>
                 /\ \A r \in RowsWhere(OriginalRows(i), c, IsNum) :
                       Get(CleanedRows(i)[r], c) = Get(OriginalRows(i)[r], c)
            ELSE /\ c \in DOMAIN Summary(i).outliers
                    => Summary(i).outliers[c] = StrictlyOutside(Coerced(OriginalRows(i), c))
                 /\ \A r \in RowsWhere(OriginalRows(i), c, IsNum) :
                       Get(CleanedRows(i)[r], c) # Get(OriginalRows(i)[r], c)
                       <=> \/ StrictlyBelow(Coerced(OriginalRows(i), c),
                                            Get(OriginalRows(i)[r], c).v)
                           \/ StrictlyAbove(Coerced(OriginalRows(i), c),
                                            Get(OriginalRows(i)[r], c).v)

\* C13 happens: in the column 2, 2, 2, 2, 40 both bounds are 2; the cells equal
\* to the bounds are kept and 40 is the one outlier listed
C13_Witness ==
    \E i \in 1..Len(runs) :
        /\ Returned(i)
        /\ ColumnValues(OriginalRows(i), "x") = <<Num(2), Num(2), Num(2), Num(2), Num(40)>>
        /\ "x" \in DOMAIN Summary(i).outliers
        /\ Summary(i).outliers["x"] = <<40>>
        /\ Get(CleanedRows(i)[1], "x") = Num(2)

\* C14: summary.outliers has an entry for every column of the table: the list of
\* the original outlier values for a numeric column, the empty list for a
\* categorical column and for a column with fewer than 4 numeric-coercible values.
\* The code assigns outliers[column] inside "if numeric" only, so a categorical
\* column has no entry.
C14_OutliersForEveryColumn ==
    \A i \in 1..Len(runs) : Returned(i) =>
        \A c \in Range(TableColumns(i)) :
            /\ c \in DOMAIN Summary(i).outliers
            /\ Summary(i).outliers[c]
                 = IF /\ Summary(i).dataTypes[c] = "numeric"
                      /\ Len(Coerced(OriginalRows(i), c)) >= 4
                   THEN StrictlyOutside(Coerced(OriginalRows(i), c))
                   ELSE << >>

\* C15: for a column without a numeric-coercible original cell statistics[col]
\* carries missingCount only, the number of literally missing cells; for a column
\* with one, it carries mean, median, std, min, max and a missingCount that is the
\* number of cells failing the numeric coercion predicate, which exceeds
\* summary.missingValues[col] by the number of non-missing cells that do not parse
\* as numbers.
C15_MissingCounts ==
    \A i \in 1..Len(runs) : Returned(i) =>
        \A c \in Range(TableColumns(i)) :
            /\ c \in DOMAIN Statistics(i)
            /\ IF Coerced(OriginalRows(i), c) = << >>
               THEN Statistics(i)[c]
                      = [missingCount |->
                            Cardinality(RowsWhere(OriginalRows(i), c, LiterallyMissing))]
               ELSE /\ DOMAIN Statistics(i)[c]
                         = {"mean", "median", "std", "min", "max", "missingCount"}
                    /\ Statistics(i)[c].missingCount
                         = Len(OriginalRows(i)) - Len(Coerced(OriginalRows(i), c))
                    /\ Statistics(i)[c].missingCount - Summary(i).missingValues[c]
                         = Cardinality(TextRows(OriginalRows(i), c))

\* C15 happens: the column "2", "NY" has one text cell that is no number:
\* missingCount is 1 and missingValues is 0
C15_Witness ==
    \E i \in 1..Len(runs) :
        /\ Returned(i)
        /\ ColumnValues(OriginalRows(i), "x") = <<Str(Text2), Str(TextNY)>>
        /\ Statistics(i)["x"].missingCount = 1
        /\ Summary(i).missingValues["x"] = 0

\* C16: statistics are computed from the original table: for a column with
\* numeric observations min and max are the smallest and the largest
\* numeric-coerced original value, median is the one of rank floor(n/2) and mean
\* is their mean rounded to 4 decimals (mean and median in units of 10^-4), also
\* when cleanedData has capped or imputed cells in that column.
C16_StatisticsOfOriginal ==
    \A i \in 1..Len(runs) : Returned(i) =>
        \A c \in Range(TableColumns(i)) :
            Coerced(OriginalRows(i), c) # << >> =>
                /\ Statistics(i)[c].min = Ranked(Coerced(OriginalRows(i), c), 0)
                /\ Statistics(i)[c].max
                     = Ranked(Coerced(OriginalRows(i), c), Len(Coerced(OriginalRows(i), c)) - 1)
                /\ Statistics(i)[c].median
                     = 10000 * Ranked(Coerced(OriginalRows(i), c),
                                      Len(Coerced(OriginalRows(i), c)) \div 2)
                /\ 2 * (Statistics(i)[c].mean * Len(Coerced(OriginalRows(i), c))
                          - 10000 * Sum(Coerced(OriginalRows(i), c)))
                     \in (0 - Len(Coerced(OriginalRows(i), c)))..Len(Coerced(OriginalRows(i), c))

\* C16 happens: the column 2, 2, 4, 4, 40 has its cell 40 capped to 7 in
\* cleanedData, and statistics gives max 40 and mean 10.4
C16_Witness ==
    \E i \in 1..Len(runs) :
        /\ Returned(i)
        /\ ColumnValues(OriginalRows(i), "x") = <<Num(2), Num(2), Num(4), Num(4), Num(40)>>
        /\ Get(CleanedRows(i)[5], "x") = Num(7)
        /\ Statistics(i)["x"].max = 40
        /\ Statistics(i)["x"].mean = 104000

\* C17: when several values tie for the highest frequency in a column of text
\* only, the value imputed for a missing cell is the first of the tied values in
\* row order.  The code reduces the keys with "frequency[a] > frequency[b] ? a : b",
\* which keeps the later key on a tie, so it imputes the last of the tied values.
C17_FirstTiedValue ==
    \A i \in 1..Len(runs) : Returned(i) =>
        \A c \in Range(TableColumns(i)) :
            (Coerced(OriginalRows(i), c) = << >> /\ TextRows(OriginalRows(i), c) # {})
            => \A r \in RowsWhere(OriginalRows(i), c, LiterallyMissing) :
                   Get(CleanedRows(i)[r], c) = FirstMostFrequent(OriginalRows(i), c)

\* C18: for a column with an even number n of numeric-coerced values, the median
\* imputed for a missing cell and reported in statistics (in units of 10^-4) is
\* the lower of the two middle values in ascending order.  The code takes
\* sorted[Math.floor(n / 2)], with 0-based indexing the upper of the two.
C18_LowerMedian ==
    \A i \in 1..Len(runs) : Returned(i) =>
        \A c \in Range(TableColumns(i)) :
            (/\ Len(Coerced(OriginalRows(i), c)) > 0
             /\ Len(Coerced(OriginalRows(i), c)) % 2 = 0)
            => /\ Statistics(i)[c].median
                    = 10000 * Ranked(Coerced(OriginalRows(i), c),
                                     (Len(Coerced(OriginalRows(i), c)) \div 2) - 1)
               /\ \A r \in RowsWhere(OriginalRows(i), c, LiterallyMissing) :
                     Get(CleanedRows(i)[r], c)
                       = Num(Ranked(Coerced(OriginalRows(i), c),
                                    (Len(Coerced(OriginalRows(i), c)) \div 2) - 1))

\* C19: the imputation of a column follows its classification: in a column with
\* at least one non-missing value, a missing cell is replaced by a median of the
\* column when the column is classified numeric, and by a mode of the column when
\* it is classified categorical.  The code imputes the median as soon as one
\* value of the column is numeric-coercible, whatever the classification.
C19_ImputationFollowsType ==
    \A i \in 1..Len(runs) : Returned(i) =>
        \A c \in Range(TableColumns(i)) :
            \A r \in RowsWhere(OriginalRows(i), c, LiterallyMissing) :
                Cardinality(RowsWhere(OriginalRows(i), c, LiterallyMissing))
                    < Len(OriginalRows(i))
                => IF Summary(i).dataTypes[c] = "numeric"
                   THEN IsMedian(Coerced(OriginalRows(i), c), Get(CleanedRows(i)[r], c))
                   ELSE IsMode(OriginalRows(i), c, Get(CleanedRows(i)[r], c))

\* the rows of a table with the entries of one column only
OnlyColumn(rows, column) ==
    LET Test(entry) == entry[1] = column
    IN  [r \in 1..Len(rows) |-> SelectSeq(rows[r], Test)]

\* what a new DataProcessor returns for the table of run i cut down to one column
ColumnRun(i, column) ==
    Processed(<< >>, << >>,
              [runs[i].file EXCEPT !.rows = OnlyColumn(runs[i].file.rows, column)],
              <<column>>)

\* C22: columns do not interfere: what the analysis gives for a column c (the
\* cleaned column, missingValues[c], dataTypes[c], outliers[c], statistics[c]) is
\* what it gives for the table cut down to c, so two tables of the same row count
\* that agree on c agree on all of these; and a number-typed cell that cleaning
\* changed is a bound of the original values of its column.
C22_ColumnsIndependent ==
    \A i \in 1..Len(runs) : Returned(i) =>
        \A c \in Range(TableColumns(i)) :
            \A alone \in {ColumnRun(i, c)} :
                /\ ColumnValues(CleanedRows(i), c)
                     = ColumnValues(alone.snapshot.cleanedData, c)
                /\ Summary(i).missingValues[c] = alone.analysis.summary.missingValues[c]
                /\ Summary(i).dataTypes[c] = alone.analysis.summary.dataTypes[c]
                /\ c \in DOMAIN Summary(i).outliers
                     <=> c \in DOMAIN alone.analysis.summary.outliers
                /\ c \in DOMAIN Summary(i).outliers
                     => Summary(i).outliers[c] = alone.analysis.summary.outliers[c]
                /\ Statistics(i)[c] = alone.analysis.statistics[c]
                /\ \A r \in RowsWhere(OriginalRows(i), c, IsNum) :
                      Get(CleanedRows(i)[r], c) # Get(OriginalRows(i)[r], c)
                      => 2 * Get(CleanedRows(i)[r], c).v
                           \in {TwiceLower(Coerced(OriginalRows(i), c)),
                                TwiceUpper(Coerced(OriginalRows(i), c))}

\* C22 happens: in a two-column sheet the column x = 2, 2, 2, 2, 2 has bounds
\* [2, 2] and the column y = 40, 40, 40, 40, 40 keeps its cells
C22_Witness ==
    \E i \in 1..Len(runs) :
        /\ Returned(i)
        /\ TableColumns(i) = ColsXY
        /\ ColumnValues(OriginalRows(i), "x") = <<Num(2), Num(2), Num(2), Num(2), Num(2)>>
        /\ ColumnValues(CleanedRows(i), "y") = <<Num(40), Num(40), Num(40), Num(40), Num(40)>>

\* every cell of the column is missing
AllMissing(rows, column) ==
    \A r \in 1..Len(rows) : LiterallyMissing(Get(rows[r], column))

\* C23: a cell of cleanedData is missing (null, absent, the empty string or
\* "NaN") only if every cell of its column in the original table is missing; in
\* such a column every cleaned cell is missing, and neither the actions cleanData
\* collects nor summary.cleaningActions hold an imputation action for it.
C23_MissingOnlyIfAllMissing ==
    \A i \in 1..Len(runs) : Returned(i) =>
        \A c \in Range(TableColumns(i)) :
            /\ \A r \in 1..Len(CleanedRows(i)) :
                  LiterallyMissing(Get(CleanedRows(i)[r], c))
                  => AllMissing(OriginalRows(i), c)
            /\ AllMissing(OriginalRows(i), c)
               => /\ AllMissing(CleanedRows(i), c)
                  /\ Occurrences(Summary(i).cleaningActions, ImputedAction(c)) = 0
                  /\ Occurrences(cleanData(OriginalRows(i), TableColumns(i)).cleaningActions,
                                 ImputedAction(c)) = 0

\* C23 happens: the column "", "NaN" has no value to impute with and its cleaned
\* cells are null
C23_Witness ==
    \E i \in 1..Len(runs) :
        /\ Returned(i)
        /\ ColumnValues(OriginalRows(i), "x") = <<Str(EmptyText), Str(NaNText)>>
        /\ ColumnValues(CleanedRows(i), "x") = <<Null, Null>>

\* C24: the capping step never changes a value the imputation produced for the
\* same cell: the cleaned cell of a missing original cell is the imputed value;
\* an imputed median lies between the values of rank floor(n/4) and floor(3n/4)
\* of the column, so within the bounds, and an imputed mode is no number.
C24_ImputedNeverCapped ==
    \A i \in 1..Len(runs) : Returned(i) =>
        \A c \in Range(TableColumns(i)) :
            \A r \in RowsWhere(OriginalRows(i), c, LiterallyMissing) :
                /\ Get(CleanedRows(i)[r], c) = imputeValue(OriginalRows(i), c)
                /\ IF Coerced(OriginalRows(i), c) # << >>
                   THEN /\ IsNum(Get(CleanedRows(i)[r], c))
                        /\ Ranked(Coerced(OriginalRows(i), c),
                                  Len(Coerced(OriginalRows(i), c)) \div 4)
                             <= Get(CleanedRows(i)[r], c).v
                        /\ Get(CleanedRows(i)[r], c).v
                             <= Ranked(Coerced(OriginalRows(i), c),
                                       (3 * Len(Coerced(OriginalRows(i), c))) \div 4)
                        /\ ~StrictlyBelow(Coerced(OriginalRows(i), c),
                                          Get(CleanedRows(i)[r], c).v)
                        /\ ~StrictlyAbove(Coerced(OriginalRows(i), c),
                                          Get(CleanedRows(i)[r], c).v)
                   ELSE ~IsNum(Get(CleanedRows(i)[r], c))

\* C24 happens: in the column 2, 40, 40, 40, "" the bounds are [40, 40], the
\* cell 2 is capped and the empty cell gets the median 40, which is kept
C24_Witness ==
    \E i \in 1..Len(runs) :
        /\ Returned(i)
        /\ ColumnValues(OriginalRows(i), "x")
             = <<Num(2), Num(40), Num(40), Num(40), Str(EmptyText)>>
        /\ ColumnValues(CleanedRows(i), "x")
             = <<Num(40), Num(40), Num(40), Num(40), Num(40)>>

\* the cell is a number strictly outside the bounds of the numeric values of its
\* column, of which there are at least 4
NumberOutlier(rows, column, cell) ==
    /\ IsNum(cell)
    /\ Len(Coerced(rows, column)) >= 4
    /\ \/ StrictlyBelow(Coerced(rows, column), cell.v)
       \/ StrictlyAbove(Coerced(rows, column), cell.v)

\* C25: cleaning changes only missing cells and number-typed outlier cells: every
\* other original cell is in cleanedData at the same row and column with its
\* value and type, a text-encoded number as the same text.
C25_OtherCellsKept ==
    \A i \in 1..Len(runs) : Returned(i) =>
        \A c \in Range(TableColumns(i)) :
            \A r \in 1..Len(OriginalRows(i)) :
                (/\ ~LiterallyMissing(Get(OriginalRows(i)[r], c))
                 /\ ~NumberOutlier(OriginalRows(i), c, Get(OriginalRows(i)[r], c)))
                => Get(CleanedRows(i)[r], c) = Get(OriginalRows(i)[r], c)

\* C25 happens: in the column 2, 2, 2, 2, "40" the text "40" is outside the
\* bounds [2, 2] and stays the text "40"
C25_Witness ==
    \E i \in 1..Len(runs) :
        /\ Returned(i)
        /\ ColumnValues(OriginalRows(i), "x") = <<Num(2), Num(2), Num(2), Num(2), Str(Text40)>>
        /\ Get(CleanedRows(i)[5], "x") = Str(Text40)

\* summary.outliers[col] of run i, the empty list when the column has no entry
ReportedOutliers(i, column) ==
    IF column \in DOMAIN Summary(i).outliers THEN Summary(i).outliers[column] ELSE << >>

\* the rows of run i whose cell of the column was capped: not missing, and
\* changed by the cleaning
CappedRows(i, column) ==
    {r \in 1..Len(OriginalRows(i)) :
        /\ ~LiterallyMissing(Get(OriginalRows(i)[r], column))
        /\ Get(CleanedRows(i)[r], column) # Get(OriginalRows(i)[r], column)}

\* C26: the outliers reported and the outliers capped agree: for every column,
\* each value occurs in summary.outliers[col] (empty without an entry) as often
\* as it is the original value of a capped cell.  The code caps number-typed
\* cells in any column and reports the coerced outliers of numeric columns only.
C26_ReportedAreCapped ==
    \A i \in 1..Len(runs) : Returned(i) =>
        \A c \in Range(TableColumns(i)) :
            \A v \in Range(Coerced(OriginalRows(i), c)) \cup Range(ReportedOutliers(i, c)) :
                Occurrences(ReportedOutliers(i, c), v)
                  = Cardinality({r \in CappedRows(i, c) :
                                    Coerce(Get(OriginalRows(i)[r], c)) = v})

----------------------------------------------------------------------------
(* Properties of the lifecycle (specification SpecLifecycle) *)

\* what a new DataProcessor returns for the file
FreshRun(file) == Processed(<< >>, << >>, file, ParseOutcome(file).columns)

SameResult(i, j) ==
    /\ runs[i].outcome = runs[j].outcome
    /\ Returned(i) =>
          /\ Summary(i) = Summary(j)
          /\ Statistics(i) = Statistics(j)
          /\ CleanedRows(i) = CleanedRows(j)
          /\ ReturnedOriginalRows(i) = ReturnedOriginalRows(j)

\* C6: analysing the same table twice gives identical summary, statistics and
\* cleanedData: what a run returns is what a new DataProcessor returns for its
\* file, whatever the processor analysed before and whatever was written since.
C6_Deterministic ==
    \A i \in 1..Len(runs) :
        /\ \A j \in 1..Len(runs) : runs[i].file = runs[j].file => SameResult(i, j)
        /\ Returned(i) =>
              /\ Summary(i) = FreshRun(runs[i].file).analysis.summary
              /\ Statistics(i) = FreshRun(runs[i].file).analysis.statistics
              /\ CleanedRows(i) = FreshRun(runs[i].file).snapshot.cleanedData

\* C6 happens: the processor analysed a table with rows and a missing cell, and
\* then the same file again
C6_Witness ==
    /\ Len(runs) = 2
    /\ runs[1].file = runs[2].file
    /\ Returned(1) /\ Returned(2)
    /\ "x" \in DOMAIN Summary(2).missingValues
    /\ Summary(2).missingValues["x"] = 1
    /\ runs[1].analysis.originalData # runs[2].analysis.originalData

\* C7: originalData and cleanedData of a returned analysis share no row: a write
\* into a row of cleanedData leaves the rows of originalData as they were, and a
\* write into a row of originalData leaves the rows of cleanedData as they were.
C7_IndependentRows ==
    [][\A i \in 1..Len(runs) : Returned(i) =>
          /\ (lastOp'.op = "writeCleaned" /\ lastOp'.run = i)
             => Deref(heap', runs[i].analysis.originalData)
                  = Deref(heap, runs[i].analysis.originalData)
          /\ (lastOp'.op = "writeOriginal" /\ lastOp'.run = i)
             => Deref(heap', runs[i].analysis.cleanedData)
                  = Deref(heap, runs[i].analysis.cleanedData)]_vars

\* C7 happens: a cell of a cleaned row of a returned analysis was overwritten
C7_Witness ==
    /\ lastOp.op = "writeCleaned"
    /\ Returned(lastOp.run)
    /\ Deref(heap, runs[lastOp.run].analysis.cleanedData) # CleanedRows(lastOp.run)
    /\ Len(runs[lastOp.run].analysis.originalData) > 0

\* C8: the originalData of a returned analysis is a snapshot: neither a later
\* processFile call on the same processor nor a write into a row of the table the
\* processor holds changes its rows.  The code returns [...this.data], a new array
\* of the same row objects, so a write into a held row shows in originalData.
C8_OriginalDataSnapshot ==
    [][\A i \in 1..Len(runs) :
          (Returned(i) /\ lastOp'.op \in {"processFile", "writeHeld"})
          => Deref(heap', runs[i].analysis.originalData)
               = Deref(heap, runs[i].analysis.originalData)]_vars

----------------------------------------------------------------------------
(* Properties of the upload component (specification SpecUpload) *)

\* C20: a failed run never yields an Analysis.  A processFile call on a file of
\* another extension or a file the parser fails on throws, with the reason, and
\* returns no analysis; and while the component shows an error message, it is
\* the reason of a failed run and the analysis state is null.  In the card
\* component a result that arrives after another file was dropped stays in the
\* analysis state when the run of the new file fails.
C20_FailedRunNoAnalysis ==
    /\ \A i \in 1..Len(runs) :
          (\/ runs[i].file.broken
           \/ FileExtension(runs[i].file.name) \notin {CsvExt, XlsxExt, XlsExt})
          => /\ runs[i].outcome = "threw"
             /\ "analysis" \notin DOMAIN runs[i]
             /\ FileExtension(runs[i].file.name) \notin {CsvExt, XlsxExt, XlsExt}
                => runs[i].error = UnsupportedFormat
    /\ (ui # Unmounted /\ ui.error # Null)
       => /\ ui.analysis = Null
          /\ \E i \in 1..Len(runs) :
                runs[i].outcome = "threw" /\ ui.error = Str(runs[i].error)

\* C21: the result of an abandoned run is discarded: in every state of the
\* component a non-null analysis is the one a run returned for the file now
\* selected.  The code calls setAnalysis(result) when the promise settles whatever
\* happened to the selection since, so the analysis of a file that was cleared or
\* replaced while its run was in flight is shown.
C21_AbandonedRunDiscarded ==
    (ui # Unmounted /\ ui.analysis # Null)
    => /\ ui.file # Null
       /\ \E i \in 1..Len(runs) :
             /\ runs[i].outcome = "returned"
             /\ runs[i].analysis = ui.analysis
             /\ runs[i].file = ui.file

\* no run is in flight and no timer is pending, after at least one run
Quiescent ==
    /\ ui # Unmounted
    /\ Len(runs) > 0
    /\ ui.pending = Null
    /\ ui.intervals = {}
    /\ ui.timeouts = 0

\* C27: every run, returned or failed, leaves isProcessing false and, once all
\* its timers have fired or are cleared, progress at 0; progress is 100 only
\* after a run returned and is at most 90 while a run is in flight.  The catch
\* branch neither clears the interval nor resets the progress: after a failed
\* run the interval ticks on to 90, clears itself and leaves progress at 90.
C27_ProgressSettles ==
    /\ Quiescent => ~ui.isProcessing /\ ui.progress = 0
    /\ ui # Unmounted =>
          /\ ui.progress = 100 => \E i \in 1..Len(runs) : runs[i].outcome = "returned"
          /\ ui.pending # Null => ui.progress <= 90

====
